---- MODULE Spec2Model ----
(***************************************************************************)
(* Portfolio backend (src/main.py): the dual-mode persistence facade, the  *)
(* startup mode selection and the request handlers that use them.          *)
(*                                                                         *)
(* Time is counted in days.  A string is modelled by what the schemas look  *)
(* at: its length (and, for an e-mail address, whether it is well formed).  *)
(* A request body says whether it is a JSON object, other JSON or no JSON   *)
(* at all, and gives the object's fields, Missing marking an absent field.  *)
(* The status of a response is the status the route handler returns or     *)
(* raises as HTTPException.                                                 *)
(***************************************************************************)
EXTENDS Integers, Sequences, FiniteSets, TLC

\* ---------------------------------------------------------------- bounds
\* Most records the two collections hold together in the model.
MaxDocs == 2

\* ------------------------------------------------------- program constants
\* get_recent_documents(..., days=7) as called by both analytics handlers.
RecentDays == 7
\* validate.Length(max=100) on name, email and project_name.
MaxNameLen == 100
\* validate.Length(max=45) on user_ip.
MaxIpLen == 45

\* The days (since the process started) at which requests arrive: the start,
\* and the days around the end of the recency window of a record made then.
ClockPoints == {0, RecentDays - 1, RecentDays, RecentDays + 1}

CONTACTS_COLLECTION == "contacts"
PROJECT_VIEWS_COLLECTION == "project_views"

\* PROJECTS_DATA: id -> title.
PROJECTS_DATA ==
    (1 :> "Market Days") @@ (2 :> "Trading Simulator") @@ (3 :> "Crypto Dashboard")
    @@ (4 :> "Book a Stay") @@ (5 :> "Dakuzon") @@ (6 :> "Online-Shop")

\* ----------------------------------------------------------------- inputs
Missing == [kind |-> "missing"]
None == [kind |-> "none"]
Str(n) == [kind |-> "str", len |-> n]
EmailStr(n, ok) == [kind |-> "str", len |-> n, wellformed |-> ok]

\* Identifiers uuid.uuid4() and Firestore's document() can hand out.
UuidSpace == 1 .. MaxDocs

\* json: "object" (a JSON object with the fields given), "not_object" (other
\* JSON, such as a list) or "not_json" (request.json() cannot parse it).
ContactBodies ==
    [json : {"object"},
     name : {Missing, Str(1), Str(101)},
     email : {EmailStr(9, TRUE), EmailStr(9, FALSE)},
     message : {Str(0), Str(2)}]
    \cup [json : {"not_object", "not_json"}, name : {Missing}, email : {Missing},
          message : {Missing}]

ViewBodies ==
    [json : {"object"},
     project_name : {Missing, Str(5)},
     user_ip : {Missing, None, Str(46)}]
    \cup [json : {"not_object", "not_json"}, project_name : {Missing},
          user_ip : {Missing}]

\* Project ids requests carry: two of the catalog, one unknown.
ProjectIdInputs == {1, 2, 999}

\* What the environment of FirebaseConfig offers each of its four credential
\* methods.  env_json: FIREBASE_SERVICE_ACCOUNT_KEY is unset, is not JSON, is
\* JSON that credentials.Certificate rejects, or is a valid key.  env_file:
\* FIREBASE_SERVICE_ACCOUNT_PATH is unset or names no file, names a file
\* that is rejected, or a valid one.  local_file: whether development mode
\* finds a valid service-account file.  default_credentials: whether
\* initialize_app accepts the application default credentials.
Environments ==
    [env_json : {"unset", "malformed", "rejected", "valid"},
     env_file : {"unset", "rejected", "valid"},
     local_file : {"absent", "valid"},
     default_credentials : {"rejected", "accepted"}]

\* An environment that offers nothing.
NoEnviron ==
    [env_json |-> "unset", env_file |-> "unset", local_file |-> "absent",
     default_credentials |-> "rejected"]

\* call: the FirebaseConfig method last called; value: what it returned
\* ("raised" when it raised).
Returned(call, value) == [call |-> call, value |-> value]

\* ------------------------------------------------------------------ state
VARIABLES
    pc,                   \* "startup" | "running" | "aborted"; "config" in SpecConfig
    FIREBASE_AVAILABLE,   \* the firebase_admin import succeeded
    db,                   \* "None" | "client"
    USE_DATABASE,
    local_contacts,
    local_project_views,
    fs_contacts,          \* the managed store's "contacts" collection
    fs_project_views,     \* the managed store's "project_views" collection
    now,                  \* datetime.now(), in days
    resp,                 \* the last response
    background_tasks,     \* the notifications scheduled and not yet run
    send_result,          \* what send_email last returned: "none" before any
    is_initialized,       \* FirebaseConfig.is_initialized
    self_db,              \* FirebaseConfig.db: "None" | "client"
    firebase_app,         \* firebase_admin holds a default app
    environ,              \* the credentials the environment offers
    returned              \* the last FirebaseConfig call and what it returned

vars == <<pc, FIREBASE_AVAILABLE, db, USE_DATABASE,
          local_contacts, local_project_views, fs_contacts, fs_project_views,
          now, resp, background_tasks, send_result,
          is_initialized, self_db, firebase_app, environ, returned>>

stores == <<local_contacts, local_project_views, fs_contacts, fs_project_views>>
mode == <<FIREBASE_AVAILABLE, db, USE_DATABASE>>
mail == <<background_tasks, send_result>>
config == <<is_initialized, self_db, firebase_app, environ, returned>>

\* op: the handler; status: the status it answered; document_id: what the
\* create function returned to it (none when it was not called or raised);
\* data: the storage mode the body names (GET / and GET /api/health), else "".
Response(op, status, document_id, data) ==
    [op |-> op, status |-> status, document_id |-> document_id, data |-> data]

NoResp == Response("none", 200, {}, "")

Init ==
    /\ pc = "startup"
    /\ background_tasks = <<>>
    /\ send_result = "none"
    /\ is_initialized = FALSE
    /\ self_db = "None"
    /\ firebase_app = FALSE
    /\ environ = NoEnviron
    /\ returned = Returned("none", "none")
    /\ FIREBASE_AVAILABLE \in BOOLEAN
    /\ db = "None"
    /\ USE_DATABASE = FALSE
    /\ local_contacts = <<>>
    /\ local_project_views = <<>>
    /\ fs_contacts = <<>>
    /\ fs_project_views = <<>>
    /\ now = 0
    /\ resp = NoResp

\* ---------------------------------------------------------------- startup
\* What FIREBASE_SERVICE_ACCOUNT_KEY can hold.
EnvKeys == {"unset", "empty", "not_json", "rejected", "valid"}

\* The body of the try block of lines 51-60: "return" (no credential, it
\* returns), the exception it raises, or "none" when initialize_app went
\* through.  app_error: firebase_admin.initialize_app raises.
TryInitApp(key, app_error) ==
    IF key \in {"unset", "empty"} THEN "return"
    ELSE IF key = "not_json" THEN "JSONDecodeError"
    ELSE IF key = "rejected" THEN "ValueError"
    ELSE IF app_error THEN "FirebaseError"
    ELSE "none"

\* Mutant: only the JSONDecodeError clause is there.
InitHandlersJsonOnly == {"JSONDecodeError"}

\* The except clauses around initialize_app (lines 61, 65) and around
\* firestore.client() (line 74).
InitHandlers == {"JSONDecodeError", "Exception"}
ClientHandlers == {"Exception"}

\* An except clause for Exception catches every exception raised here.
Catches(handlers, exc) == "Exception" \in handlers \/ exc \in handlers

\* Whether initialize_firebase gets as far as firestore.client(): the SDK is
\* there and get_app() finds an app (app_exists) or initialize_app made one.
ReachesClient(app_exists, key, app_error) ==
    /\ FIREBASE_AVAILABLE
    /\ app_exists \/ TryInitApp(key, app_error) = "none"

\* An exception leaves initialize_firebase, and with it the module's import.
StartupRaises(app_exists, key, app_error, client_error) ==
    /\ FIREBASE_AVAILABLE
    /\ \/ /\ ~app_exists
          /\ TryInitApp(key, app_error) \notin {"return", "none"}
          /\ ~Catches(InitHandlers, TryInitApp(key, app_error))
       \/ /\ ReachesClient(app_exists, key, app_error)
          /\ client_error
          /\ ~Catches(ClientHandlers, "Exception")

\* Mutant: USE_DATABASE is set as soon as the app is there, before the client
\* is made.
initialize_firebase_flag_first(app_exists, key, app_error, client_error) ==
    /\ pc = "startup"
    /\ UNCHANGED <<mail, config>>
    /\ pc' = IF StartupRaises(app_exists, key, app_error, client_error)
             THEN "aborted" ELSE "running"
    /\ UNCHANGED <<FIREBASE_AVAILABLE, stores, now, resp>>
    /\ USE_DATABASE' = ReachesClient(app_exists, key, app_error)
    /\ db' = IF ReachesClient(app_exists, key, app_error) /\ ~client_error
             THEN "client" ELSE db

\* initialize_firebase.  app_exists: firebase_admin already holds a default
\* app; key: the environment's credential; app_error, client_error: whether
\* initialize_app and firestore.client() raise.
initialize_firebase(app_exists, key, app_error, client_error) ==
    /\ pc = "startup"
    /\ UNCHANGED <<mail, config>>
    /\ pc' = IF StartupRaises(app_exists, key, app_error, client_error)
             THEN "aborted" ELSE "running"
    /\ UNCHANGED <<FIREBASE_AVAILABLE, stores, now, resp>>
    /\ IF ReachesClient(app_exists, key, app_error) /\ ~client_error
       THEN /\ db' = "client"
            /\ USE_DATABASE' = TRUE
       ELSE UNCHANGED <<db, USE_DATABASE>>

Startup ==
    \E app_exists \in BOOLEAN, key \in EnvKeys, app_error \in BOOLEAN,
       client_error \in BOOLEAN :
        initialize_firebase(app_exists, key, app_error, client_error)

\* The routing condition `USE_DATABASE and db`.
UseFirebase == USE_DATABASE /\ db # "None"

\* ----------------------------------------------------------------- facade
\* The identifiers of the records a collection holds.
IdsOf(coll) == {coll[i].id : i \in 1 .. Len(coll)}

UsedIds ==
    IdsOf(local_contacts) \cup IdsOf(local_project_views)
    \cup IdsOf(fs_contacts) \cup IdsOf(fs_project_views)

\* uuid.uuid4() and Firestore's document() draw an identifier at random from a
\* space so large that a repeat is not expected: they are taken to return one
\* that no record carries.  Identifiers are interchangeable, so the model
\* takes the least of them.
NewId == CHOOSE id \in UuidSpace \ UsedIds : \A other \in UuidSpace \ UsedIds : id <= other

\* The model's bound: there is room for one more record.
HasRoom ==
    Len(local_contacts) + Len(local_project_views)
    + Len(fs_contacts) + Len(fs_project_views) < MaxDocs

\* Mutant: the contact is stored as already read.
ContactRecordRead(contact_data, id) ==
    [id |-> id, name |-> contact_data.name, email |-> contact_data.email,
     message |-> contact_data.message, created_at |-> now, is_read |-> TRUE]

\* The record create_contact_document builds; in the managed store the
\* identifier is the document's key, which the readers put back as "id".
ContactRecord(contact_data, id) ==
    [id |-> id, name |-> contact_data.name, email |-> contact_data.email,
     message |-> contact_data.message, created_at |-> now, is_read |-> FALSE]

\* Mutant: every view is stored under one identifier made when the module
\* was loaded.
ViewRecordFixedId(view_data, id) ==
    [id |-> 1, project_name |-> view_data.project_name,
     user_ip |-> IF view_data.user_ip.kind = "missing" THEN None ELSE view_data.user_ip,
     viewed_at |-> now]

\* view_data.get("user_ip")
GetUserIp(view_data) ==
    IF view_data.user_ip.kind = "missing" THEN None ELSE view_data.user_ip

\* The record create_project_view_document builds.
ViewRecord(view_data, id) ==
    [id |-> id, project_name |-> view_data.project_name,
     user_ip |-> GetUserIp(view_data), viewed_at |-> now]

\* Mutant: the contacts are read from the in-memory list in either mode.
get_all_contacts_local_only == local_contacts

\* get_all_contacts / get_all_project_views, when the store answers.
get_all_contacts == IF UseFirebase THEN fs_contacts ELSE local_contacts
get_all_project_views == IF UseFirebase THEN fs_project_views ELSE local_project_views

\* datetime.now() - timedelta(days=days)
cutoff_date == now - RecentDays

\* The managed store's query where(FieldFilter("created_at", ">=", cutoff))
\* over the documents docs: a document without the field matches no filter on
\* it.
FirestoreWhereCreatedAt(docs) ==
    LET Keep(d) == "created_at" \in DOMAIN d /\ d.created_at >= cutoff_date
    IN SelectSeq(docs, Keep)

\* db.collection(collection_name)
FirestoreCollection(collection_name) ==
    IF collection_name = CONTACTS_COLLECTION THEN fs_contacts
    ELSE IF collection_name = PROJECT_VIEWS_COLLECTION THEN fs_project_views
    ELSE <<>>

\* c.get(field, datetime.now())
GetTime(rec, field) == IF field \in DOMAIN rec THEN rec[field] ELSE now

\* The in-memory branch of get_recent_documents over the lists given.
LocalSelect(collection_name, contacts, views) ==
    LET KeepContact(c) == GetTime(c, "created_at") >= cutoff_date
        KeepView(v) == GetTime(v, "viewed_at") >= cutoff_date
    IN IF collection_name = CONTACTS_COLLECTION
       THEN SelectSeq(contacts, KeepContact)
       ELSE IF collection_name = PROJECT_VIEWS_COLLECTION
       THEN SelectSeq(views, KeepView)
       ELSE <<>>

\* get_recent_documents(collection_name, days=7), when the store answers.
get_recent_documents(collection_name) ==
    IF UseFirebase
    THEN IF FIREBASE_AVAILABLE
         THEN FirestoreWhereCreatedAt(FirestoreCollection(collection_name))
         ELSE <<>>
    ELSE LocalSelect(collection_name, local_contacts, local_project_views)

\* ------------------------------------------------------------- validation
LengthOk(v, min, max) == v.kind = "str" /\ v.len >= min /\ v.len <= max

\* contact_message_schema.load(body) raises no ValidationError.
ContactValid(body) ==
    /\ body.json = "object"
    /\ LengthOk(body.name, 1, MaxNameLen)
    /\ body.email.kind = "str" /\ body.email.wellformed
    /\ body.email.len <= MaxNameLen
    /\ body.message.kind = "str" /\ body.message.len >= 1

\* project_view_create_schema.load(body) raises no ValidationError.
ViewValid(body) ==
    /\ body.json = "object"
    /\ LengthOk(body.project_name, 1, MaxNameLen)
    /\ \/ body.user_ip.kind \in {"missing", "none"}
       \/ LengthOk(body.user_ip, 0, MaxIpLen)

\* --------------------------------------------------------------- handlers
\* The dict validate_and_load_data returns for a valid contact body.
ContactData(body) ==
    [name |-> body.name, email |-> body.email, message |-> body.message]

\* Mutant: the notification is scheduled as soon as the body is valid,
\* before the record is written.
submit_contact_schedules_first(body, store_ok) ==
    /\ pc = "running"
    /\ UNCHANGED <<send_result, config>>
    /\ UNCHANGED <<pc, mode, now, local_project_views, fs_project_views>>
    /\ IF body.json = "not_json"
       THEN /\ resp' = Response("submit_contact", 500, {}, "")
            /\ UNCHANGED <<local_contacts, fs_contacts, background_tasks>>
       ELSE IF ~ContactValid(body)
       THEN /\ resp' = Response("submit_contact", 422, {}, "")
            /\ UNCHANGED <<local_contacts, fs_contacts, background_tasks>>
       ELSE /\ HasRoom
            /\ background_tasks' = Append(background_tasks, ContactData(body))
            /\ IF UseFirebase
               THEN IF store_ok
                    THEN /\ fs_contacts' = Append(fs_contacts, ContactRecord(body, NewId))
                         /\ resp' = Response("submit_contact", 200, {NewId}, "")
                         /\ UNCHANGED local_contacts
                    ELSE /\ resp' = Response("submit_contact", 500, {}, "")
                         /\ UNCHANGED <<local_contacts, fs_contacts>>
               ELSE /\ local_contacts' = Append(local_contacts, ContactRecord(body, NewId))
                    /\ resp' = Response("submit_contact", 200, {NewId}, "")
                    /\ UNCHANGED fs_contacts

\* POST /api/contact.  store_ok: the managed store accepts the write.  The
\* notification is added to the background tasks after the record is stored.
submit_contact(body, store_ok) ==
    /\ pc = "running"
    /\ UNCHANGED <<send_result, config>>
    /\ UNCHANGED <<pc, mode, now, local_project_views, fs_project_views>>
    /\ IF body.json = "not_json"
       THEN /\ resp' = Response("submit_contact", 500, {}, "")
            /\ UNCHANGED <<local_contacts, fs_contacts, background_tasks>>
       ELSE IF ~ContactValid(body)
       THEN /\ resp' = Response("submit_contact", 422, {}, "")
            /\ UNCHANGED <<local_contacts, fs_contacts, background_tasks>>
       ELSE IF UseFirebase
       THEN IF store_ok
            THEN /\ HasRoom
                 /\ fs_contacts' = Append(fs_contacts, ContactRecord(body, NewId))
                 /\ background_tasks' = Append(background_tasks, ContactData(body))
                 /\ resp' = Response("submit_contact", 200, {NewId}, "")
                 /\ UNCHANGED local_contacts
            ELSE /\ resp' = Response("submit_contact", 500, {}, "")
                 /\ UNCHANGED <<local_contacts, fs_contacts, background_tasks>>
       ELSE /\ HasRoom
            /\ local_contacts' = Append(local_contacts, ContactRecord(body, NewId))
            /\ background_tasks' = Append(background_tasks, ContactData(body))
            /\ resp' = Response("submit_contact", 200, {NewId}, "")
            /\ UNCHANGED fs_contacts

\* A scheduled send_contact_notification runs, after its response was
\* produced.  smtp_ok: the SMTP conversation of send_email succeeds; when it
\* does not, send_email catches the exception and returns False.
send_contact_notification(smtp_ok) ==
    /\ pc = "running"
    /\ background_tasks # <<>>
    /\ background_tasks' = Tail(background_tasks)
    /\ send_result' = IF smtp_ok THEN "True" ELSE "False"
    /\ UNCHANGED <<pc, mode, now, stores, resp, config>>

\* Mutant: the lookup takes the first project of the catalog, whatever the id.
FindProjectFirst(project_id) ==
    IF project_id \in DOMAIN PROJECTS_DATA THEN {PROJECTS_DATA[1]} ELSE {}

\* Mutant: an unknown id falls back to the first project instead of None.
FindProjectDefault(project_id) ==
    IF project_id \in DOMAIN PROJECTS_DATA THEN {PROJECTS_DATA[project_id]}
    ELSE {PROJECTS_DATA[1]}

\* next((p for p in PROJECTS_DATA if p["id"] == project_id), None), as the
\* set of titles found.
FindProject(project_id) ==
    IF project_id \in DOMAIN PROJECTS_DATA THEN {PROJECTS_DATA[project_id]} ELSE {}

\* POST /api/projects/{project_id}/view.
track_project_view(project_id, body, store_ok) ==
    /\ pc = "running"
    /\ UNCHANGED <<mail, config>>
    /\ UNCHANGED <<pc, mode, now, local_contacts, fs_contacts>>
    /\ IF body.json = "not_json"
       THEN /\ resp' = Response("track_project_view", 500, {}, "")
            /\ UNCHANGED <<local_project_views, fs_project_views>>
       ELSE IF ~ViewValid(body)
       THEN /\ resp' = Response("track_project_view", 422, {}, "")
            /\ UNCHANGED <<local_project_views, fs_project_views>>
       ELSE IF FindProject(project_id) = {}
       THEN /\ resp' = Response("track_project_view", 404, {}, "")
            /\ UNCHANGED <<local_project_views, fs_project_views>>
       ELSE LET title == CHOOSE t \in FindProject(project_id) : TRUE
                view_data == [body EXCEPT !.project_name = title]
            IN IF UseFirebase
               THEN IF store_ok
                    THEN /\ HasRoom
                         /\ fs_project_views' =
                                Append(fs_project_views, ViewRecord(view_data, NewId))
                         /\ resp' = Response("track_project_view", 200, {NewId}, "")
                         /\ UNCHANGED local_project_views
                    ELSE /\ resp' = Response("track_project_view", 500, {}, "")
                         /\ UNCHANGED <<local_project_views, fs_project_views>>
               ELSE /\ HasRoom
                    /\ local_project_views' =
                           Append(local_project_views, ViewRecord(view_data, NewId))
                    /\ resp' = Response("track_project_view", 200, {NewId}, "")
                    /\ UNCHANGED fs_project_views

\* Mutant: a project's count is set to 1 at each of its views, not added to.
ProjectViewCountsSet(views) ==
    [n \in {views[i].project_name : i \in 1 .. Len(views)} |-> 1]

\* The per-project counts get_project_views builds from the views it read.
ProjectViewCounts(views) ==
    LET names == {views[i].project_name : i \in 1 .. Len(views)}
    IN [n \in names |-> Cardinality({i \in 1 .. Len(views) : views[i].project_name = n})]

\* The body of GET /api/analytics/views when no store call fails.
ViewsAnalytics ==
    [total_views |-> Len(get_all_project_views),
     project_views |-> ProjectViewCounts(get_all_project_views),
     recent_views |-> Len(get_recent_documents(PROJECT_VIEWS_COLLECTION))]

\* The body of GET /api/analytics/contacts when no store call fails.
ContactsAnalytics ==
    LET contacts == get_all_contacts
    IN [total_contacts |-> Len(contacts),
        unread_contacts |->
            Cardinality({i \in 1 .. Len(contacts) : ~contacts[i].is_read}),
        recent_contacts |-> Len(get_recent_documents(CONTACTS_COLLECTION))]

\* GET /api/analytics/views.  store_ok: the managed store answers both reads.
get_project_views(store_ok) ==
    /\ pc = "running"
    /\ UNCHANGED <<mail, config>>
    /\ UNCHANGED <<pc, mode, now, stores>>
    /\ resp' = IF UseFirebase /\ ~store_ok
               THEN Response("get_project_views", 500, {}, "")
               ELSE Response("get_project_views", 200, {}, "")

\* Mutant: when the managed store raises, the handler answers from the
\* in-memory list instead.
get_contact_analytics_falls_back(store_ok) ==
    /\ pc = "running"
    /\ UNCHANGED <<mail, config>>
    /\ UNCHANGED <<pc, mode, now, stores>>
    /\ resp' = Response("get_contact_analytics", 200, {}, "")

\* Mutant: reading the analytics marks the in-memory contacts as read.
get_contact_analytics_marks_read(store_ok) ==
    /\ pc = "running"
    /\ UNCHANGED <<mail, config>>
    /\ UNCHANGED <<pc, mode, now, local_project_views, fs_contacts, fs_project_views>>
    /\ local_contacts' =
           [i \in 1 .. Len(local_contacts) |-> [local_contacts[i] EXCEPT !.is_read = TRUE]]
    /\ resp' = IF UseFirebase /\ ~store_ok
               THEN Response("get_contact_analytics", 500, {}, "")
               ELSE Response("get_contact_analytics", 200, {}, "")

\* GET /api/analytics/contacts.
get_contact_analytics(store_ok) ==
    /\ pc = "running"
    /\ UNCHANGED <<mail, config>>
    /\ UNCHANGED <<pc, mode, now, stores>>
    /\ resp' = IF UseFirebase /\ ~store_ok
               THEN Response("get_contact_analytics", 500, {}, "")
               ELSE Response("get_contact_analytics", 200, {}, "")

\* The body of GET /.
RootBody == [database_mode |-> IF USE_DATABASE THEN "Firebase" ELSE "In-memory"]

\* GET /
root ==
    /\ pc = "running"
    /\ UNCHANGED <<mail, config>>
    /\ UNCHANGED <<pc, mode, now, stores>>
    /\ resp' = Response("root", 200, {}, RootBody.database_mode)

\* The database field of GET /api/health.  store_ok: the probe read of the
\* managed store succeeds.
HealthDatabase(store_ok) ==
    IF UseFirebase THEN IF store_ok THEN "connected" ELSE "disconnected"
    ELSE "local_mode"

\* Mutant: a failed probe drops the process to in-memory mode.
health_check_demotes(store_ok) ==
    /\ pc = "running"
    /\ UNCHANGED <<mail, config>>
    /\ UNCHANGED <<pc, FIREBASE_AVAILABLE, db, now, stores>>
    /\ USE_DATABASE' = (USE_DATABASE /\ ~(UseFirebase /\ ~store_ok))
    /\ resp' = Response("health_check", 200, {}, HealthDatabase(store_ok))

\* GET /api/health: it answers 200 whatever the probe finds.
health_check(store_ok) ==
    /\ pc = "running"
    /\ UNCHANGED <<mail, config>>
    /\ UNCHANGED <<pc, mode, now, stores>>
    /\ resp' = Response("health_check", 200, {}, HealthDatabase(store_ok))

\* datetime.now() moves on between requests.
Tick ==
    /\ pc = "running"
    /\ UNCHANGED <<mail, config>>
    /\ \E t \in ClockPoints : t > now /\ now' = t
    /\ UNCHANGED <<pc, mode, stores, resp>>

\* What the managed store can do with a call; only managed mode calls it.
StoreOutcomes == IF UseFirebase THEN BOOLEAN ELSE {TRUE}

SendContactNotification ==
    \E smtp_ok \in BOOLEAN : send_contact_notification(smtp_ok)

SubmitContact ==
    \E body \in ContactBodies, store_ok \in StoreOutcomes :
        submit_contact(body, store_ok)

TrackProjectView ==
    \E project_id \in ProjectIdInputs, body \in ViewBodies,
       store_ok \in StoreOutcomes :
        track_project_view(project_id, body, store_ok)

GetProjectViews == \E store_ok \in StoreOutcomes : get_project_views(store_ok)
GetContactAnalytics == \E store_ok \in StoreOutcomes : get_contact_analytics(store_ok)
HealthCheck == \E store_ok \in StoreOutcomes : health_check(store_ok)

Next ==
    \/ Startup
    \/ SubmitContact
    \/ TrackProjectView
    \/ GetProjectViews
    \/ GetContactAnalytics
    \/ root
    \/ HealthCheck
    \/ SendContactNotification
    \/ Tick

Spec == Init /\ [][Next]_vars

\* --------------------------------------------------------- FirebaseConfig
\* config/firebase_config.py, a module of its own: main.py does not import it.
main == <<pc, mode, stores, now, resp, mail>>

\* The credential methods, in the order initialize() tries them.
methods ==
    <<"_init_from_env_json", "_init_from_env_file", "_init_from_local_file",
      "_init_with_default_credentials">>

\* What a credential method does in environment env: it returns "True"
\* after initialize_app made the default app, returns "False", or "raises".
\* app: the default app exists already, so that initialize_app raises
\* ValueError; only _init_from_env_json lets that (and a rejected
\* certificate) out, the other three catch every exception.
MethodOutcome(method, env, app) ==
    IF method = "_init_from_env_json"
    THEN IF env.env_json \in {"unset", "malformed"} THEN "False"
         ELSE IF env.env_json = "rejected" \/ app THEN "raises"
         ELSE "True"
    ELSE IF method = "_init_from_env_file"
    THEN IF env.env_file = "valid" /\ ~app THEN "True" ELSE "False"
    ELSE IF method = "_init_from_local_file"
    THEN IF env.local_file = "valid" /\ ~app THEN "True" ELSE "False"
    ELSE IF env.default_credentials = "accepted" /\ ~app THEN "True" ELSE "False"

\* What firestore.client() does: it returns a client or raises ValueError
\* (no project id) or another exception (no usable credentials).
ClientOutcomes == {"client", "ValueError", "Exception"}

RECURSIVE RunMethods(_, _, _, _)
\* The loop of initialize() from method i on.  st: the object's fields, the
\* app registry and the value returned.  When a method returns True the
\* flag is set and then the client is made; an exception of either is caught
\* and the loop goes on to the next method.
RunMethods(i, st, env, client) ==
    IF i > Len(methods) THEN [st EXCEPT !.value = "False"]
    ELSE IF MethodOutcome(methods[i], env, st.app) = "True"
    THEN LET flagged == [st EXCEPT !.app = TRUE, !.is_initialized = TRUE]
         IN IF client = "client"
            THEN [flagged EXCEPT !.db = "client", !.value = "True"]
            ELSE RunMethods(i + 1, flagged, env, client)
    ELSE RunMethods(i + 1, st, env, client)

\* initialize(): the fields, the app registry and the return value it
\* leaves.  client: what the one firestore.client() call it can reach does.
InitializeResult(client) ==
    LET st == [is_initialized |-> is_initialized, db |-> self_db,
               app |-> firebase_app, value |-> "none"]
    IN IF is_initialized THEN [st EXCEPT !.value = "True"]
       ELSE IF firebase_app
       THEN LET flagged == [st EXCEPT !.is_initialized = TRUE]
            IN IF client = "client"
               THEN [flagged EXCEPT !.db = "client", !.value = "True"]
               ELSE IF client = "ValueError"
               THEN RunMethods(1, flagged, environ, client)
               ELSE [flagged EXCEPT !.value = "raised"]
       ELSE RunMethods(1, st, environ, client)

initialize(client) ==
    /\ pc = "config"
    /\ LET r == InitializeResult(client)
       IN /\ is_initialized' = r.is_initialized
          /\ self_db' = r.db
          /\ firebase_app' = r.app
          /\ returned' = Returned("initialize", r.value)
    /\ UNCHANGED <<main, environ>>

get_db(client) ==
    /\ pc = "config"
    /\ IF ~is_initialized
       THEN LET r == InitializeResult(client)
            IN /\ is_initialized' = r.is_initialized
               /\ self_db' = r.db
               /\ firebase_app' = r.app
               /\ returned' = Returned("get_db",
                                  IF r.value = "raised" THEN "raised"
                                  ELSE IF r.value = "False" THEN "None"
                                  ELSE r.db)
       ELSE /\ returned' = Returned("get_db", self_db)
            /\ UNCHANGED <<is_initialized, self_db, firebase_app>>
    /\ UNCHANGED <<main, environ>>

is_available ==
    /\ pc = "config"
    /\ returned' = Returned("is_available",
                        IF is_initialized /\ self_db # "None" THEN "True" ELSE "False")
    /\ UNCHANGED <<main, environ, is_initialized, self_db, firebase_app>>

Initialize == \E client \in ClientOutcomes : initialize(client)

GetDb == \E client \in ClientOutcomes : get_db(client)

\* A fresh FirebaseConfig() in a process where the default app may exist
\* already, in any environment.
InitConfig ==
    /\ pc = "config"
    /\ FIREBASE_AVAILABLE = TRUE
    /\ db = "None"
    /\ USE_DATABASE = FALSE
    /\ local_contacts = <<>>
    /\ local_project_views = <<>>
    /\ fs_contacts = <<>>
    /\ fs_project_views = <<>>
    /\ now = 0
    /\ resp = NoResp
    /\ background_tasks = <<>>
    /\ send_result = "none"
    /\ is_initialized = FALSE
    /\ self_db = "None"
    /\ firebase_app \in BOOLEAN
    /\ environ \in Environments
    /\ returned = Returned("none", "none")

NextConfig ==
    \/ Initialize
    \/ GetDb
    \/ is_available

SpecConfig == InitConfig /\ [][NextConfig]_vars

\* ================================================================= claims
KnownIds == ProjectIdInputs \cap DOMAIN PROJECTS_DATA
UnknownIds == ProjectIdInputs \ DOMAIN PROJECTS_DATA

\* A per-project count of GET /api/analytics/views; a project without views
\* has no entry.
CountOf(project_views, name) ==
    IF name \in DOMAIN project_views THEN project_views[name] ELSE 0

\* ---- C1
\* C1 as stated: every POST /api/contact whose body passes the schema raises
\* total_contacts and unread_contacts of GET /api/analytics/contacts by one.
C1_EveryValidSubmissionCounts ==
    [][\A body \in ContactBodies, store_ok \in BOOLEAN :
          (resp'.op = "submit_contact" /\ ContactValid(body)
           /\ submit_contact(body, store_ok)) =>
              /\ ContactsAnalytics'.total_contacts = ContactsAnalytics.total_contacts + 1
              /\ ContactsAnalytics'.unread_contacts = ContactsAnalytics.unread_contacts + 1
      ]_vars

\* C1 amended: every POST /api/contact whose body passes the schema and that is
\* answered 200 raises total_contacts and unread_contacts by exactly one (a
\* managed-store write that raises is answered 500 and stores nothing).
C1_AnsweredSubmissionCounts ==
    [][\A body \in ContactBodies, store_ok \in BOOLEAN :
          (resp'.op = "submit_contact" /\ resp'.status = 200 /\ ContactValid(body)
           /\ submit_contact(body, store_ok)) =>
              /\ ContactsAnalytics'.total_contacts = ContactsAnalytics.total_contacts + 1
              /\ ContactsAnalytics'.unread_contacts = ContactsAnalytics.unread_contacts + 1
      ]_vars

\* A second contact has been submitted and stored.
C1_Witness ==
    /\ resp.op = "submit_contact" /\ resp.status = 200
    /\ ContactsAnalytics.total_contacts = 2
    /\ ContactsAnalytics.unread_contacts = 2

\* ---- C2
\* The change one view-tracking call against project_id makes to the answer
\* of GET /api/analytics/views: that project's count and the total go up by
\* one, every other count stays.
ViewCounted(project_id) ==
    LET before == ViewsAnalytics
        after == ViewsAnalytics'
        title == PROJECTS_DATA[project_id]
    IN /\ after.total_views = before.total_views + 1
       /\ CountOf(after.project_views, title) = CountOf(before.project_views, title) + 1
       /\ \A n \in (DOMAIN before.project_views \cup DOMAIN after.project_views) \ {title} :
              CountOf(after.project_views, n) = CountOf(before.project_views, n)

\* C2 as stated: every view-tracking call against a known project id counts.
C2_EveryKnownViewCounts ==
    [][\A project_id \in KnownIds, body \in ViewBodies, store_ok \in BOOLEAN :
          (resp'.op = "track_project_view"
           /\ track_project_view(project_id, body, store_ok)) => ViewCounted(project_id)
      ]_vars

\* C2 amended: every view-tracking call against a known project id that is
\* answered 200 raises the count keyed by that id's catalog title and
\* total_views by exactly one and changes no other project's count.
C2_AnsweredViewCounts ==
    [][\A project_id \in KnownIds, body \in ViewBodies, store_ok \in BOOLEAN :
          (resp'.op = "track_project_view" /\ resp'.status = 200
           /\ track_project_view(project_id, body, store_ok)) => ViewCounted(project_id)
      ]_vars

\* Views of two projects have been tracked, the last one just now.
C2_Witness ==
    /\ resp.op = "track_project_view" /\ resp.status = 200
    /\ ViewsAnalytics.total_views = 2
    /\ Cardinality(DOMAIN ViewsAnalytics.project_views) = 2

\* ---- C3
\* C3 as stated: a view-tracking call with an unknown project id is answered
\* 404 whatever its body.
C3_UnknownIdAlways404 ==
    [][\A project_id \in UnknownIds, body \in ViewBodies, store_ok \in BOOLEAN :
          (resp'.op = "track_project_view"
           /\ track_project_view(project_id, body, store_ok)) => resp'.status = 404
      ]_vars

\* ---- C4
\* C4: a view-tracking call with an unknown project id leaves all four
\* collections (both in-memory lists, both managed collections) as they were;
\* put the other way round, a step that changes one of them is no
\* view-tracking call with an unknown id, whatever its body.
C4_UnknownIdNoSideEffect ==
    [][stores' # stores =>
          \A project_id \in UnknownIds, body \in ViewBodies, store_ok \in BOOLEAN :
              ~track_project_view(project_id, body, store_ok)
      ]_vars

\* An unknown id was answered 404 while views of known projects are held.
C4_Witness ==
    /\ resp.op = "track_project_view" /\ resp.status = 404
    /\ Len(get_all_project_views) > 0

\* ---- C5
\* The records the active store holds for a collection.
Held(collection_name) ==
    IF collection_name = CONTACTS_COLLECTION THEN get_all_contacts
    ELSE get_all_project_views

\* C5 as stated: over the same records and the same clock the managed store's
\* recency query and the in-memory recency filter select the same records, in
\* both collections.
C5_SameSelectionInBothModes ==
    \A c \in {CONTACTS_COLLECTION, PROJECT_VIEWS_COLLECTION} :
        IdsOf(FirestoreWhereCreatedAt(Held(c)))
            = IdsOf(LocalSelect(c, Held(CONTACTS_COLLECTION),
                                Held(PROJECT_VIEWS_COLLECTION)))

\* ---- C6
\* A record's own timestamp: created_at of a contact, viewed_at of a view.
TimestampOf(collection_name, rec) ==
    IF collection_name = CONTACTS_COLLECTION THEN rec.created_at ELSE rec.viewed_at

\* C6 as stated: in both collections the recent records are among all
\* records, each is at or after the cutoff, and a record exactly at the cutoff
\* is among them.
C6_RecentSubsetInclusive ==
    \A c \in {CONTACTS_COLLECTION, PROJECT_VIEWS_COLLECTION} :
        LET recent == get_recent_documents(c)
            all == Held(c)
        IN /\ \A i \in 1 .. Len(recent) : \E j \in 1 .. Len(all) : recent[i] = all[j]
           /\ \A i \in 1 .. Len(recent) : TimestampOf(c, recent[i]) >= now - RecentDays
           /\ \A j \in 1 .. Len(all) :
                  TimestampOf(c, all[j]) = now - RecentDays
                      => \E i \in 1 .. Len(recent) : recent[i] = all[j]

\* ---- C7
\* C7: once initialize_firebase has run, no step changes USE_DATABASE or db,
\* so the routing condition stays what it was.
C7_ModeFixedAfterStartup ==
    [][pc = "running" =>
          /\ USE_DATABASE' = USE_DATABASE
          /\ db' = db
          /\ UseFirebase' = UseFirebase]_vars

\* Requests were served, and a health check found the managed store
\* unreachable, in a process that is still in managed mode.
C7_Witness ==
    /\ pc = "running" /\ USE_DATABASE
    /\ resp.op = "health_check" /\ resp.data = "disconnected"
    /\ Len(fs_contacts) > 0

\* ---- C8
\* C8: whatever happens in initialize_firebase, it returns (the process goes
\* on to serve requests); after each of the failures it is in in-memory mode,
\* and it is in managed mode only when an app is there (found or initialized)
\* and the client was created.
C8_StartupNeverAborts ==
    [][\A app_exists \in BOOLEAN, key \in EnvKeys, app_error \in BOOLEAN,
         client_error \in BOOLEAN :
          (pc = "startup"
           /\ initialize_firebase(app_exists, key, app_error, client_error)) =>
              /\ pc' = "running"
              /\ ~FIREBASE_AVAILABLE => ~USE_DATABASE'
              /\ (~app_exists /\ key \in {"unset", "empty", "not_json", "rejected"})
                     => ~USE_DATABASE'
              /\ (~app_exists /\ app_error) => ~USE_DATABASE'
              /\ client_error => ~USE_DATABASE'
              /\ USE_DATABASE' =>
                     /\ db' = "client"
                     /\ app_exists \/ (key = "valid" /\ ~app_error)
                     /\ ~client_error
              /\ ~USE_DATABASE' => db' = "None"
      ]_vars

\* The SDK is installed, startup failed to reach the store and the process
\* serves requests in in-memory mode.
C8_Witness ==
    /\ pc = "running" /\ FIREBASE_AVAILABLE /\ ~USE_DATABASE /\ db = "None"
    /\ resp.op = "submit_contact" /\ resp.status = 200

\* ---- C9
Unique(coll) ==
    \A i, j \in 1 .. Len(coll) : coll[i].id = coll[j].id => i = j

\* C9: no two records of a collection carry the same identifier, and after a
\* create the identifier returned is that of the record just stored (the last
\* of its collection).
C9_IdentifiersUnique ==
    /\ Unique(local_contacts) /\ Unique(local_project_views)
    /\ Unique(fs_contacts) /\ Unique(fs_project_views)
    /\ (resp.op = "submit_contact" /\ resp.status = 200) =>
           resp.document_id = {get_all_contacts[Len(get_all_contacts)].id}
    /\ (resp.op = "track_project_view" /\ resp.status = 200) =>
           resp.document_id = {get_all_project_views[Len(get_all_project_views)].id}

\* A collection holds two records and the second was just created.
C9_Witness ==
    /\ resp.op = "track_project_view" /\ resp.status = 200
    /\ Len(get_all_project_views) = 2

\* ---- C10
\* C10 as stated, for the two POST handlers: a body that is not JSON, is no
\* object or fails the schema is answered 422; an unknown project id with a
\* valid body 404; a store error 500; 422 stores nothing.
C10_ErrorTaxonomy ==
    [][/\ \A body \in ContactBodies, store_ok \in BOOLEAN :
            (resp'.op = "submit_contact" /\ submit_contact(body, store_ok)) =>
                /\ ~ContactValid(body) => resp'.status = 422
                /\ (ContactValid(body) /\ UseFirebase /\ ~store_ok) => resp'.status = 500
                /\ resp'.status = 422 => UNCHANGED stores
       /\ \A project_id \in ProjectIdInputs, body \in ViewBodies, store_ok \in BOOLEAN :
            (resp'.op = "track_project_view"
             /\ track_project_view(project_id, body, store_ok)) =>
                /\ (~ViewValid(body) /\ project_id \in KnownIds) => resp'.status = 422
                /\ (ViewValid(body) /\ project_id \in UnknownIds) => resp'.status = 404
                /\ (ViewValid(body) /\ project_id \in KnownIds /\ UseFirebase /\ ~store_ok)
                       => resp'.status = 500
                /\ resp'.status = 422 => UNCHANGED stores
      ]_vars

\* ---- C11
\* The bodies the schemas accept.
ValidContactBodies == {body \in ContactBodies : ContactValid(body)}
ValidViewBodies == {body \in ViewBodies : ViewValid(body)}

\* C11: in managed mode, when the store raises during the write of a create or
\* during the reads of an analytics handler, the handler answers 500, the
\* in-memory lists and the managed collections stay as they were and the mode
\* stays managed.
C11_StoreErrorIsReraised ==
    [][UseFirebase =>
          /\ resp'.op = "submit_contact" =>
                 \A body \in ValidContactBodies :
                     submit_contact(body, FALSE) =>
                         /\ resp'.status = 500
                         /\ UNCHANGED <<stores, mode>> /\ UseFirebase'
          /\ resp'.op = "track_project_view" =>
                 \A project_id \in KnownIds, body \in ValidViewBodies :
                     track_project_view(project_id, body, FALSE) =>
                         /\ resp'.status = 500
                         /\ UNCHANGED <<stores, mode>> /\ UseFirebase'
          /\ (resp'.op = "get_contact_analytics" /\ get_contact_analytics(FALSE)) =>
                 /\ resp'.status = 500
                 /\ UNCHANGED <<stores, mode>> /\ UseFirebase'
          /\ (resp'.op = "get_project_views" /\ get_project_views(FALSE)) =>
                 /\ resp'.status = 500
                 /\ UNCHANGED <<stores, mode>> /\ UseFirebase'
      ]_vars

\* In managed mode, with a contact stored, the reads of the contacts
\* analytics failed and were answered 500; the in-memory lists are empty.
C11_Witness ==
    /\ USE_DATABASE /\ db = "client"
    /\ resp.op = "get_contact_analytics" /\ resp.status = 500
    /\ Len(fs_contacts) > 0
    /\ local_contacts = <<>> /\ local_project_views = <<>>

\* ---- C12
IsPrefix(a, b) ==
    /\ Len(a) <= Len(b)
    /\ \A i \in 1 .. Len(a) : a[i] = b[i]

\* C12: every step leaves each in-memory list a prefix of what it becomes
\* (no record is removed or changed, the length never goes down), and every
\* contact held is unread.
C12_AppendOnly ==
    [][/\ IsPrefix(local_contacts, local_contacts')
       /\ IsPrefix(local_project_views, local_project_views')
       /\ \A i \in 1 .. Len(local_contacts') : ~local_contacts'[i].is_read
      ]_vars

\* In in-memory mode a contact and a view were stored on an earlier day and
\* the contacts analytics were read since.
C12_Witness ==
    /\ ~USE_DATABASE
    /\ Len(local_contacts) = 1 /\ Len(local_project_views) = 1
    /\ local_contacts[1].created_at < now
    /\ resp.op = "get_contact_analytics"

\* ---- C13
\* C13: after a create answered with an identifier the list-all of that
\* collection holds a record with it; an identifier that list-all holds it
\* holds after every later step; in in-memory mode a create puts its record
\* last, behind the records made before; and the handlers that call list-all
\* leave the collections as they were.
C13_WriteVisible ==
    [][/\ (resp'.op = "submit_contact" /\ resp'.status = 200) =>
              resp'.document_id \subseteq IdsOf(get_all_contacts')
       /\ (resp'.op = "track_project_view" /\ resp'.status = 200) =>
              resp'.document_id \subseteq IdsOf(get_all_project_views')
       /\ IdsOf(get_all_contacts) \subseteq IdsOf(get_all_contacts')
       /\ IdsOf(get_all_project_views) \subseteq IdsOf(get_all_project_views')
       /\ (~UseFirebase /\ local_contacts' # local_contacts) =>
              /\ Len(local_contacts') = Len(local_contacts) + 1
              /\ SubSeq(local_contacts', 1, Len(local_contacts)) = local_contacts
              /\ resp'.document_id = {local_contacts'[Len(local_contacts')].id}
       /\ (~UseFirebase /\ local_project_views' # local_project_views) =>
              /\ Len(local_project_views') = Len(local_project_views) + 1
              /\ SubSeq(local_project_views', 1, Len(local_project_views))
                     = local_project_views
              /\ resp'.document_id = {local_project_views'[Len(local_project_views')].id}
       /\ (resp'.op \in {"get_contact_analytics", "get_project_views"}
           /\ resp' # resp) => UNCHANGED stores
      ]_vars

\* In managed mode a contact was created on an earlier day and its
\* identifier is still among those list-all returns, after other requests.
C13_Witness ==
    /\ USE_DATABASE
    /\ Len(fs_contacts) = 2
    /\ fs_contacts[1].created_at < fs_contacts[2].created_at
    /\ resp.op = "get_contact_analytics" /\ resp.status = 200
    /\ IdsOf(get_all_contacts) = IdsOf(fs_contacts)

\* ---- C14
\* The body of GET /api/analytics/views over the views given, as the managed
\* branch (managed = TRUE) and as the in-memory branch compute it.
ViewsAnalyticsIn(managed, views) ==
    [total_views |-> Len(views),
     project_views |-> ProjectViewCounts(views),
     recent_views |->
        Len(IF managed THEN FirestoreWhereCreatedAt(views)
            ELSE LocalSelect(PROJECT_VIEWS_COLLECTION, <<>>, views))]

\* The body of GET /api/analytics/contacts over the contacts given.
ContactsAnalyticsIn(managed, contacts) ==
    [total_contacts |-> Len(contacts),
     unread_contacts |->
        Cardinality({i \in 1 .. Len(contacts) : ~contacts[i].is_read}),
     recent_contacts |->
        Len(IF managed THEN FirestoreWhereCreatedAt(contacts)
            ELSE LocalSelect(CONTACTS_COLLECTION, contacts, <<>>))]

\* C14 as stated, for the two analytics endpoints: over the same records and
\* the same clock the body has the same fields and, none of them naming the
\* mode or an identifier, the same values in managed and in in-memory mode.
C14_SameAnalyticsInBothModes ==
    /\ ViewsAnalyticsIn(TRUE, get_all_project_views)
           = ViewsAnalyticsIn(FALSE, get_all_project_views)
    /\ ContactsAnalyticsIn(TRUE, get_all_contacts)
           = ContactsAnalyticsIn(FALSE, get_all_contacts)

\* ---- C16
\* C16: USE_DATABASE is true only with a client in db; the database_mode GET /
\* last answered is "Firebase" exactly when the facade routes to the managed
\* store, and the database field GET /api/health last answered is
\* "local_mode" exactly when it routes to the in-memory lists.
C16_ReportedModeIsRoutedMode ==
    /\ USE_DATABASE => db = "client"
    /\ RootBody.database_mode = "Firebase" <=> UseFirebase
    /\ resp.op = "root" => (resp.data = "Firebase" <=> UseFirebase)
    /\ resp.op = "health_check" => (resp.data = "local_mode" <=> ~UseFirebase)
    /\ \A store_ok \in BOOLEAN :
           HealthDatabase(store_ok) = "local_mode" <=> ~UseFirebase

\* GET / answered "Firebase" in a process that holds a client and has
\* stored a contact in the managed store.
C16_Witness ==
    /\ resp.op = "root" /\ resp.data = "Firebase"
    /\ USE_DATABASE /\ db = "client"
    /\ Len(fs_contacts) > 0

\* ---- C18
RECURSIVE SumOver(_, _)
\* The sum of the counts f gives to the names in S.
SumOver(f, S) ==
    IF S = {} THEN 0
    ELSE LET n == CHOOSE x \in S : TRUE IN f[n] + SumOver(f, S \ {n})

\* C18: in every state the body GET /api/analytics/views answers has
\* total_views equal to the sum of its per-project counts, each count at
\* least 1 and recent_views at most total_views; the body GET
\* /api/analytics/contacts answers has unread_contacts and recent_contacts at
\* most total_contacts.
C18_AnalyticsCountsConsistent ==
    /\ ViewsAnalytics.total_views
           = SumOver(ViewsAnalytics.project_views, DOMAIN ViewsAnalytics.project_views)
    /\ \A n \in DOMAIN ViewsAnalytics.project_views :
           ViewsAnalytics.project_views[n] >= 1
    /\ ViewsAnalytics.recent_views <= ViewsAnalytics.total_views
    /\ ContactsAnalytics.unread_contacts <= ContactsAnalytics.total_contacts
    /\ ContactsAnalytics.recent_contacts <= ContactsAnalytics.total_contacts

\* GET /api/analytics/views answered 200 over two views of one project, one
\* of them older than the recent window.
C18_Witness ==
    /\ resp.op = "get_project_views" /\ resp.status = 200
    /\ ViewsAnalytics.total_views = 2
    /\ Cardinality(DOMAIN ViewsAnalytics.project_views) = 1
    /\ ViewsAnalytics.recent_views = 1

\* ---- C15
\* C15: a step schedules a notification only if it is a POST /api/contact
\* answered 200 that stored the contact the notification is about; a step
\* that answers POST /api/contact with another status (the body rejected,
\* the store write failed) schedules none; and the step that runs a
\* notification, whatever send_email returns, leaves the collections, the
\* mode and the response as they were.
C15_NotificationOnlyAfterStore ==
    [][/\ Len(background_tasks') > Len(background_tasks) =>
              /\ resp'.op = "submit_contact" /\ resp'.status = 200
              /\ Len(get_all_contacts') = Len(get_all_contacts) + 1
              /\ resp'.document_id = {get_all_contacts'[Len(get_all_contacts')].id}
              /\ background_tasks' =
                     Append(background_tasks,
                            ContactData(get_all_contacts'[Len(get_all_contacts')]))
       /\ (resp'.op = "submit_contact" /\ resp'.status # 200) =>
              Len(background_tasks') <= Len(background_tasks)
       /\ Len(background_tasks') < Len(background_tasks) =>
              /\ send_result' \in {"True", "False"}
              /\ UNCHANGED <<stores, resp, mode>>
      ]_vars

\* A contact was stored and answered 200, its notification ran and
\* send_email returned False; the record and the response are still there.
C15_Witness ==
    /\ resp.op = "submit_contact" /\ resp.status = 200
    /\ send_result = "False"
    /\ background_tasks = <<>>
    /\ Len(get_all_contacts) = 1
    /\ resp.document_id = IdsOf(get_all_contacts)

\* ---- C17
\* C17 (under SpecConfig): whenever is_initialized is true the object holds
\* a client, and when initialize() has just returned True the object is
\* available (is_initialized and a client in db).
C17_InitializedHoldsClient ==
    /\ is_initialized => self_db # "None"
    /\ returned = Returned("initialize", "True") =>
           (is_initialized /\ self_db # "None")
    /\ (is_initialized /\ returned.call = "get_db") => returned.value # "None"
====
